---- MODULE Spec2Model ----
(***************************************************************************)
(* QuantFilter.py: closed-form QEC survival / AUIL signal curves over a    *)
(* noise grid, the seeded single-run trace and the ROC-style               *)
(* classification rates.                                                   *)
(*                                                                         *)
(* The script computes in IEEE-754 binary64.  A binary64 value is modelled *)
(* exactly: [neg, m, e] stands for (-1)^neg * m * 2^e with m a natural     *)
(* number held as little-endian limbs of LimbBits bits, normalised to      *)
(* Precision significant bits (fewer only for subnormals, e = MinExp).     *)
(* +, - and * round to nearest, ties to even, as the hardware does.        *)
(***************************************************************************)
EXTENDS Integers, Sequences, FiniteSets

VARIABLES
    codes,          \* line 5: the code identifiers, in iteration order
    p_vals,         \* line 7: the noise grid of the curves
    seed,           \* line 90: the argument of np.random.seed
    single_run_p,   \* line 91: the noise grid of the single-run trace
    single_code,    \* line 92: the code of the single-run trace
    pc,             \* position in the script
    iter,           \* index of the running for loop (1-based)
    QEC_curves,     \* line 29: dict code -> array
    AUIL_curves,    \* line 30: dict code -> array
    rng,            \* numpy's process-wide generator: [key, pos]
    logical_bits,   \* line 93
    AUIL_bits,      \* line 98
    true_pos,       \* line 112
    false_pos,      \* line 112
    err,            \* the exception that ended the script, or "none"
    err_line,       \* the line that raised it, or 0
    run,            \* how many times the script was started
    prev_bits       \* logical_bits as the previous run of the script left it

vars == <<codes, p_vals, seed, single_run_p, single_code, pc, iter, QEC_curves,
          AUIL_curves, rng, logical_bits, AUIL_bits, true_pos, false_pos,
          err, err_line, run, prev_bits>>

(***************************************************************************)
(* Natural numbers of arbitrary size (the exact results before rounding).  *)
(***************************************************************************)
LimbBits == 14
Base == 2 ^ LimbBits

RECURSIVE NTrim(_)
NTrim(s) ==
    IF s = <<>> THEN <<>>
    ELSE IF s[Len(s)] = 0 THEN NTrim(SubSeq(s, 1, Len(s) - 1))
    ELSE s

RECURSIVE NFromInt(_)
NFromInt(i) == IF i = 0 THEN <<>> ELSE <<i % Base>> \o NFromInt(i \div Base)

Limb(a, i) == IF i >= 1 /\ i <= Len(a) THEN a[i] ELSE 0

MaxOf(x, y) == IF x >= y THEN x ELSE y
MinOf(x, y) == IF x <= y THEN x ELSE y

RECURSIVE NCarry(_, _, _)
\* cols: a sequence of column sums; propagates the carries from limb i on.
NCarry(cols, i, carry) ==
    IF i > Len(cols)
    THEN (IF carry = 0 THEN <<>> ELSE NFromInt(carry))
    ELSE LET t == cols[i] + carry
         IN  <<t % Base>> \o NCarry(cols, i + 1, t \div Base)

NAdd(a, b) ==
    NTrim(NCarry([i \in 1..MaxOf(Len(a), Len(b)) |-> Limb(a, i) + Limb(b, i)], 1, 0))

RECURSIVE NBorrow(_, _, _, _)
NBorrow(a, b, i, borrow) ==
    IF i > Len(a) THEN <<>>
    ELSE LET t == a[i] - Limb(b, i) - borrow
         IN  IF t < 0
             THEN <<t + Base>> \o NBorrow(a, b, i + 1, 1)
             ELSE <<t>> \o NBorrow(a, b, i + 1, 0)

\* a - b for a >= b
NSub(a, b) == NTrim(NBorrow(a, b, 1, 0))

RECURSIVE NCmpFrom(_, _, _)
NCmpFrom(a, b, i) ==
    IF i = 0 THEN 0
    ELSE IF a[i] < b[i] THEN -1
    ELSE IF a[i] > b[i] THEN 1
    ELSE NCmpFrom(a, b, i - 1)

\* -1, 0, 1 as a < b, a = b, a > b
NCmp(a, b) ==
    IF Len(a) < Len(b) THEN -1
    ELSE IF Len(a) > Len(b) THEN 1
    ELSE NCmpFrom(a, b, Len(a))

RECURSIVE ColSum(_, _, _, _)
\* sum of a[i] * b[k + 1 - i] for i in lo..hi
ColSum(a, b, k, i) ==
    IF i > MinOf(Len(a), k) THEN 0
    ELSE (IF k + 1 - i <= Len(b) THEN a[i] * b[k + 1 - i] ELSE 0)
         + ColSum(a, b, k, i + 1)

NMul(a, b) ==
    IF a = <<>> \/ b = <<>> THEN <<>>
    ELSE NTrim(NCarry([k \in 1..(Len(a) + Len(b) - 1) |-> ColSum(a, b, k, 1)], 1, 0))

\* a * 2^k
NShl(a, k) ==
    IF a = <<>> THEN <<>>
    ELSE [i \in 1..(k \div LimbBits) |-> 0] \o NMul(a, <<2 ^ (k % LimbBits)>>)

\* floor(a / 2^k)
NShr(a, k) ==
    LET q == k \div LimbBits
        r == k % LimbBits
        n == Len(a) - q
    IN  IF n <= 0 THEN <<>>
        ELSE NTrim([i \in 1..n |->
                 (a[q + i] \div (2 ^ r))
                 + (Limb(a, q + i + 1) % (2 ^ r)) * (2 ^ (LimbBits - r))])

RECURSIVE IntBitLen(_)
IntBitLen(i) == IF i = 0 THEN 0 ELSE 1 + IntBitLen(i \div 2)

NBitLen(a) == IF a = <<>> THEN 0 ELSE (Len(a) - 1) * LimbBits + IntBitLen(a[Len(a)])

\* bit i of a (bit 0 is the least significant)
NBit(a, i) == (Limb(a, (i \div LimbBits) + 1) \div (2 ^ (i % LimbBits))) % 2

\* some bit among the k low bits of a is set
NLowBits(a, k) == NShl(NShr(a, k), k) # a

(***************************************************************************)
(* binary64                                                                *)
(***************************************************************************)
Precision == 53
MinExp == -1074

Zero == [neg |-> FALSE, m |-> <<>>, e |-> 0]

IsZero(x) == x.m = <<>>

\* nan: a record no rounding produces
NaN == [neg |-> FALSE, m |-> <<0>>, e |-> 0]

IsNaN(x) == x = NaN

\* The value nearest to (-1)^neg * M * 2^E among those of prec significant
\* bits and least exponent minexp, ties to even.
RoundTo(prec, minexp, neg, M, E) ==
    IF M = <<>> THEN Zero
    ELSE LET L == NBitLen(M)
             q == MaxOf(E + L - prec, minexp)
         IN  IF q <= E
             THEN [neg |-> neg, m |-> NShl(M, E - q), e |-> q]
             ELSE LET r    == q - E
                      kept == NShr(M, r)
                      half == NBit(M, r - 1) = 1
                      rest == NLowBits(M, r - 1)
                      odd  == NBit(kept, 0) = 1
                      up   == half /\ (rest \/ odd)
                      m1   == IF up THEN NAdd(kept, <<1>>) ELSE kept
                  IN  IF m1 = <<>> THEN Zero
                      ELSE IF NBitLen(m1) > prec
                      THEN [neg |-> neg, m |-> NShr(m1, 1), e |-> q + 1]
                      ELSE [neg |-> neg, m |-> m1, e |-> q]

\* The binary64 nearest to (-1)^neg * M * 2^E, ties to even; gradual underflow.
Round(neg, M, E) == RoundTo(Precision, MinExp, neg, M, E)

\* the binary64 value of the integer k * 2^x (k any integer)
Float(k, x) == Round(k < 0, NFromInt(IF k < 0 THEN -k ELSE k), x)

\* |a| < |b|; false when either is nan
MagLt(a, b) ==
    IF IsNaN(a) \/ IsNaN(b) THEN FALSE
    ELSE IF IsZero(b) THEN FALSE
    ELSE IF IsZero(a) THEN TRUE
    ELSE a.e < b.e \/ (a.e = b.e /\ NCmp(a.m, b.m) < 0)

\* a < b; false when either is nan
flt(a, b) ==
    IF IsNaN(a) \/ IsNaN(b) THEN FALSE
    ELSE IF a.neg /\ ~b.neg THEN TRUE
    ELSE IF ~a.neg /\ b.neg THEN FALSE
    ELSE IF a.neg THEN MagLt(b, a)
    ELSE MagLt(a, b)

\* a <= b; false when either is nan
fle(a, b) == ~IsNaN(a) /\ ~IsNaN(b) /\ ~flt(b, a)

\* a == b; false when either is nan
feq(a, b) == ~IsNaN(a) /\ ~IsNaN(b) /\ a = b

fneg(a) == IF IsZero(a) \/ IsNaN(a) THEN a ELSE [a EXCEPT !.neg = ~a.neg]

\* a + b
fadd(a, b) ==
    IF IsNaN(a) \/ IsNaN(b) THEN NaN
    ELSE IF IsZero(a) THEN b
    ELSE IF IsZero(b) THEN a
    ELSE LET big   == IF MagLt(a, b) THEN b ELSE a
             small == IF MagLt(a, b) THEN a ELSE b
             gap   == big.e - small.e
         IN  IF gap > Precision + 2
             THEN big    \* |small| < ulp(big)/8: the sum rounds back to big
             ELSE LET B == NShl(big.m, gap)
                  IN  IF big.neg = small.neg
                      THEN Round(big.neg, NAdd(B, small.m), small.e)
                      ELSE Round(big.neg, NSub(B, small.m), small.e)

\* a - b
fsub(a, b) == fadd(a, fneg(b))

\* a * b
fmul(a, b) ==
    IF IsNaN(a) \/ IsNaN(b) THEN NaN
    ELSE IF IsZero(a) \/ IsZero(b) THEN Zero
    ELSE Round(a.neg # b.neg, NMul(a.m, b.m), a.e + b.e)

\* The working precision of pow: products are kept to WidePrecision bits, so
\* that the power is rounded to binary64 once, at the end.
WidePrecision == 98

wmul(a, b) ==
    IF IsZero(a) \/ IsZero(b) THEN Zero
    ELSE RoundTo(WidePrecision, MinExp - WidePrecision, a.neg # b.neg,
                 NMul(a.m, b.m), a.e + b.e)

RECURSIVE PowLoop(_, _, _)
\* square-and-multiply: acc * base^k
PowLoop(acc, base, k) ==
    IF k = 0 \/ IsZero(acc) THEN acc
    ELSE IF IsZero(base) THEN Zero
    ELSE PowLoop(IF k % 2 = 1 THEN wmul(acc, base) ELSE acc,
                 IF k > 1 THEN wmul(base, base) ELSE base,
                 k \div 2)

One == Float(1, 0)

\* x ** k for an integer k >= 0: the power, correctly rounded (libm's pow).
fpow(x, k) ==
    IF IsNaN(x) THEN NaN
    ELSE LET w == PowLoop(One, x, k)
         IN  Round(w.neg, w.m, w.e)

RECURSIVE DivLoop(_, _, _, _)
\* k more quotient bits of rem / B (rem < B); the last bit is sticky.  (Len(q)
\* is never negative: the test makes TLC evaluate q at each step.)
DivLoop(q, rem, B, k) ==
    IF k = 0 \/ Len(q) < 0 THEN NAdd(NShl(q, 1), IF rem = <<>> THEN <<>> ELSE <<1>>)
    ELSE LET r2 == NShl(rem, 1)
         IN  IF NCmp(r2, B) >= 0
             THEN DivLoop(NAdd(NShl(q, 1), <<1>>), NSub(r2, B), B, k - 1)
             ELSE DivLoop(NShl(q, 1), r2, B, k - 1)

\* a / b for b # 0, and 0 / 0, which is nan
fdiv(a, b) ==
    IF IsNaN(a) \/ IsNaN(b) \/ IsZero(b) THEN NaN
    ELSE IF IsZero(a) THEN Zero
    ELSE LET A  == NShl(a.m, Precision - NBitLen(a.m))
             ea == a.e - (Precision - NBitLen(a.m))
             B  == NShl(b.m, Precision - NBitLen(b.m))
             eb == b.e - (Precision - NBitLen(b.m))
             q0 == IF NCmp(A, B) >= 0 THEN <<1>> ELSE <<>>
             r0 == IF NCmp(A, B) >= 0 THEN NSub(A, B) ELSE A
         IN  Round(a.neg # b.neg, DivLoop(q0, r0, B, Precision + 2),
                   ea - eb - (Precision + 3))

\* np.maximum(a, b) for numbers; nan when either is nan
fmax(a, b) == IF IsNaN(a) \/ IsNaN(b) THEN NaN ELSE IF fle(b, a) THEN a ELSE b

(***************************************************************************)
(* Parameters (lines 5-11)                                                 *)
(***************************************************************************)
n_qubits == 1048576

codes_shipped == <<"bit-flip", "phase-flip", "depolarizing">>

SupportedCodes == {"bit-flip", "phase-flip", "depolarizing"}

\* the int n_qubits as it enters float arithmetic
N == Float(n_qubits, 0)

Half == Float(1, -1)

\* line 8
threshold_QEC == [code \in {codes_shipped[k] : k \in 1..3} |-> Half]

\* line 10: 1.0 / n_qubits
one_over_n == fdiv(One, N)

\* line 10: {c: 1.0 / n_qubits for c in codes}
threshold_AUIL == [c \in {codes[k] : k \in DOMAIN codes} |-> one_over_n]

\* np.linspace(0, 1, num): arange(num) * (1 / (num - 1)), the last point set to 1
linspace(num) ==
    [k \in 1..num |->
        IF k = 1 THEN Zero
        ELSE IF k = num THEN One
        ELSE fmul(Float(k - 1, 0), fdiv(One, Float(num - 1, 0)))]

(***************************************************************************)
(* The two models (lines 14-26)                                            *)
(***************************************************************************)
Return(v) == [raised |-> FALSE, value |-> v]
Raise(exc) == [raised |-> TRUE, exc |-> exc]

\* mutant: an unknown identifier falls through to the last formula
logical_survival_no_raise(code, p) ==
    IF code \in {"bit-flip", "phase-flip"}
    THEN Return(fadd(fpow(fsub(One, p), n_qubits),
                     fmul(fmul(N, p), fpow(fsub(One, p), n_qubits - 1))))
    ELSE Return(fpow(fsub(One, p), n_qubits))

\* mutant: the one-error term without its (1 - p) ** (n_qubits - 1) factor
logical_survival_no_factor(code, p) ==
    IF code \in {"bit-flip", "phase-flip"}
    THEN Return(fadd(fpow(fsub(One, p), n_qubits), fmul(N, p)))
    ELSE IF code = "depolarizing"
    THEN Return(fpow(fsub(One, p), n_qubits))
    ELSE Raise("ValueError")

\* mutant: the one-error term without its factor p
logical_survival_no_p(code, p) ==
    IF code \in {"bit-flip", "phase-flip"}
    THEN Return(fadd(fpow(fsub(One, p), n_qubits),
                     fmul(N, fpow(fsub(One, p), n_qubits - 1))))
    ELSE IF code = "depolarizing"
    THEN Return(fpow(fsub(One, p), n_qubits))
    ELSE Raise("ValueError")

logical_survival(code, p) ==
    IF code \in {"bit-flip", "phase-flip"}
    THEN Return(fadd(fpow(fsub(One, p), n_qubits),
                     fmul(fmul(N, p), fpow(fsub(One, p), n_qubits - 1))))
    ELSE IF code = "depolarizing"
    THEN Return(fpow(fsub(One, p), n_qubits))
    ELSE Raise("ValueError")

\* mutant: the signal without its clamp at 0
AUIL_signal_no_clamp(code, p) == fsub(One, fmul(N, p))

\* mutant: a signal whose slope depends on the code
AUIL_signal_by_code(code, p) ==
    IF code = "depolarizing"
    THEN fmax(Zero, fsub(One, fmul(fmul(Float(2, 0), N), p)))
    ELSE fmax(Zero, fsub(One, fmul(N, p)))

AUIL_signal(code, p) == fmax(Zero, fsub(One, fmul(N, p)))

(***************************************************************************)
(* Inputs.  The script's literals are the first members; the others are    *)
(* the configurations the components accept.                               *)
(***************************************************************************)
MaxGrid == 2
MaxRuns == 2

AllCodes == SupportedCodes \cup {"surface"}

CodeLists ==
    {codes_shipped, <<"depolarizing", "surface", "bit-flip">>}
    \cup {<<c>> : c \in AllCodes}

\* noise probabilities in [0, 1], ascending: 0, 2^-60, 2^-22, 2^-21, 3*2^-22,
\* 2^-20 (= 1/n_qubits), 0.025 (the second point of np.linspace(0, 1, 41)), 1
Probes ==
    {Zero, Float(1, -60), Float(1, -22), Float(1, -21), Float(3, -22),
     Float(1, -20), linspace(41)[2], One}

Grids ==
    {g \in UNION {[1..k -> Probes] : k \in 0..MaxGrid} :
        \A a, b \in DOMAIN g : a < b => flt(g[a], g[b])}

Seeds == {42, 7}

\* line 7
p_vals_shipped == linspace(41)

\* line 91
single_run_p_shipped == linspace(50)

\* every noise probability a grid of the model can hold
GridPoints ==
    Probes \cup {p_vals_shipped[k] : k \in 1..41}
           \cup {single_run_p_shipped[k] : k \in 1..50}
           \cup {linspace(3)[k] : k \in 1..3}

\* logical_survival and AUIL_signal tabulated on the grid points (evaluated once)
SurvivalTable == [code \in AllCodes, p \in GridPoints |-> logical_survival(code, p)]
SignalTable == [code \in AllCodes, p \in GridPoints |-> AUIL_signal(code, p)]

\* the calls logical_survival(code, p) and AUIL_signal(code, p) of the script
Survival(code, p) == SurvivalTable[code, p]
Signal(code, p) == SignalTable[code, p]

(***************************************************************************)
(* numpy's generator (lines 90, 96)                                        *)
(***************************************************************************)
\* MT19937 as np.random.seed(s) initialises it: for the k-th call of rand()
\* the two 32-bit outputs it consumes, the first shifted right by 5 bits and
\* the second by 6.
mt19937 ==
    [s \in Seeds |->
      IF s = 42
      THEN <<
         <<50269923, 53455094>>, <<127602714, 12310100>>, <<98246563, 52324177>>, <<80350581, 40053936>>, <<20940467, 29919329>>,
         <<20937230, 6709203>>, <<7795850, 30819671>>, <<116256194, 22394805>>, <<80680291, 9587629>>, <<95035892, 43680386>>,
         <<2762804, 3785716>>, <<130179096, 48452517>>, <<111728559, 62985206>>, <<28499673, 52262>>, <<24404133, 66586190>>,
         <<24616136, 41438482>>, <<40834702, 41047348>>, <<70431616, 474211>>, <<57974679, 1547693>>, <<39088113, 35217031>>,
         <<82121505, 26834215>>, <<18722549, 3131679>>, <<39210990, 65347626>>, <<49172254, 15621020>>, <<61212677, 6080494>>,
         <<105384533, 41499182>>, <<26799761, 25666589>>, <<69019377, 65983507>>, <<79512537, 31323927>>, <<6234468, 57709623>>,
         <<81543289, 45654666>>, <<22887360, 30232493>>, <<8731077, 890196>>, <<127357260, 63230089>>, <<129604937, 37801632>>,
         <<108501255, 25864863>>, <<40884568, 1071477>>, <<13109329, 15495022>>, <<91836202, 16174945>>, <<59076267, 45853038>>,
         <<16379694, 40936182>>, <<66461519, 55914764>>, <<4615549, 11634304>>, <<122046918, 26243633>>, <<34732861, 12229656>>,
         <<88922235, 50691446>>, <<41837152, 28531727>>, <<69802348, 13954728>>, <<73378211, 38097724>>, <<24810745, 2101399>>
           >>
      ELSE <<
         <<10241925, 15256467>>, <<104678928, 21405863>>, <<58842290, 65647427>>, <<97101852, 30573785>>, <<131263530, 20670386>>,
         <<72275692, 17708072>>, <<67259250, 5821253>>, <<9670539, 28143592>>, <<36029270, 1067726>>, <<67093093, 35417695>>,
         <<91164706, 58304278>>, <<107876027, 22202246>>, <<51129053, 26369912>>, <<8849826, 45253548>>, <<38674247, 45118448>>,
         <<122083576, 46575670>>, <<28640097, 23217850>>, <<60683050, 62379580>>, <<124984356, 17621698>>, <<3341917, 50382833>>,
         <<80604311, 17105650>>, <<127524222, 57129412>>, <<30910729, 11680483>>, <<73617070, 53067240>>, <<122021144, 62923239>>,
         <<17873700, 30120189>>, <<70251247, 25813395>>, <<100718306, 23989757>>, <<89793437, 12975876>>, <<62780726, 6742694>>,
         <<27494379, 32389214>>, <<65869482, 41184942>>, <<49980626, 63837195>>, <<64075698, 23404644>>, <<49108976, 18556587>>,
         <<112463449, 29964503>>, <<103166121, 64284502>>, <<42143652, 12051201>>, <<76856471, 9577491>>, <<37050676, 5604133>>,
         <<60779549, 36724327>>, <<47375954, 20817789>>, <<88234662, 18972999>>, <<49707680, 61806830>>, <<61618416, 29081100>>,
         <<96546049, 28102321>>, <<55430824, 66184314>>, <<121658071, 53255581>>, <<24219806, 23038815>>, <<99471291, 20155414>>
           >>]

\* rand() from the two outputs: (a * 67108864 + b) / 2^53
random_double(w) ==
    Round(FALSE, NAdd(NMul(NFromInt(w[1]), NFromInt(67108864)), NFromInt(w[2])),
          -Precision)

\* the k-th value of np.random.rand() after np.random.seed(s) (evaluated once)
rand_after_seed ==
    [s \in Seeds |-> [k \in DOMAIN mt19937[s] |-> random_double(mt19937[s][k])]]

(***************************************************************************)
(* The script                                                              *)
(***************************************************************************)
EmptyDict == [x \in {} |-> 0]

Put(d, k, v) == [x \in DOMAIN d \cup {k} |-> IF x = k THEN v ELSE d[x]]

\* the generator of a process that has not called np.random.seed
Fresh(r) == [key |-> -r, pos |-> 0]

InitProgram ==
    /\ pc = "aggregate"
    /\ iter = 1
    /\ QEC_curves = EmptyDict
    /\ AUIL_curves = EmptyDict
    /\ rng = Fresh(1)
    /\ logical_bits = <<>>
    /\ AUIL_bits = <<>>
    /\ true_pos = <<>>
    /\ false_pos = <<>>
    /\ err = "none"
    /\ err_line = 0
    /\ run = 1
    /\ prev_bits = <<>>

\* The parameters: the script as shipped; any code list and curve grid with
\* the shipped seed and trace code over a one-point trace; the shipped codes
\* over a three-point curve grid with any seed, trace grid and trace code.
Init ==
    /\ \/ /\ codes = codes_shipped
          /\ p_vals = p_vals_shipped
          /\ seed = 42
          /\ single_run_p = single_run_p_shipped
          /\ single_code = "bit-flip"
       \/ /\ codes \in CodeLists
          /\ p_vals \in Grids
          /\ seed = 42
          /\ single_run_p = linspace(1)
          /\ single_code = "bit-flip"
       \/ /\ codes = codes_shipped
          /\ p_vals = linspace(3)
          /\ seed \in Seeds
          /\ single_run_p \in Grids
          /\ single_code \in AllCodes
    /\ InitProgram

config == <<codes, p_vals, seed, single_run_p, single_code>>

\* lines 31-33, one iteration
Aggregate ==
    /\ pc = "aggregate"
    /\ iter <= Len(codes)
    /\ LET code == codes[iter]
           qec  == [k \in DOMAIN p_vals |-> Survival(code, p_vals[k])]
       IN  IF \E k \in DOMAIN p_vals : qec[k].raised
           THEN /\ pc' = "raised"
                /\ err' = "ValueError"
                /\ err_line' = 32
                /\ UNCHANGED <<iter, QEC_curves, AUIL_curves>>
           ELSE /\ QEC_curves' = Put(QEC_curves, code,
                                     [k \in DOMAIN p_vals |-> qec[k].value])
                /\ AUIL_curves' = Put(AUIL_curves, code,
                                      [k \in DOMAIN p_vals |-> Signal(code, p_vals[k])])
                /\ iter' = iter + 1
                /\ UNCHANGED <<pc, err, err_line>>
    /\ UNCHANGED <<config, rng, logical_bits, AUIL_bits, true_pos, false_pos,
                   run, prev_bits>>

\* lines 36-87, entered when the loop of line 31 is exhausted: the four
\* panels.  Of what they evaluate, the subscript threshold_QEC[code] of line
\* 45 is the first that can fail (QEC_curves, AUIL_curves and threshold_AUIL
\* have every member of codes as a key); the drawing calls change no variable
\* of the script.
Plot ==
    /\ pc = "aggregate"
    /\ iter > Len(codes)
    /\ IF \E k \in DOMAIN codes : codes[k] \notin DOMAIN threshold_QEC
       THEN /\ pc' = "raised"
            /\ err' = "KeyError"
            /\ err_line' = 45
       ELSE /\ pc' = "seed"
            /\ UNCHANGED <<err, err_line>>
    /\ UNCHANGED <<config, iter, QEC_curves, AUIL_curves, rng, logical_bits,
                   AUIL_bits, true_pos, false_pos, run, prev_bits>>

\* mutant: a rerun of the script seeds the generator with another seed
np_random_seed_other(s) ==
    [key |-> IF run = 1 THEN s ELSE (IF s = 42 THEN 7 ELSE 42), pos |-> 0]

\* line 90
np_random_seed(s) == [key |-> s, pos |-> 0]

np_ones(n) == [k \in 1..n |-> One]

\* lines 90-93
TraceSetup ==
    /\ pc = "seed"
    /\ rng' = np_random_seed(seed)
    /\ logical_bits' = np_ones(Len(single_run_p))
    /\ pc' = "trace"
    /\ iter' = 1
    /\ UNCHANGED <<config, QEC_curves, AUIL_curves, AUIL_bits, true_pos,
                   false_pos, err, err_line, run, prev_bits>>

\* the generator after one np.random.rand()
Advance(g) == [g EXCEPT !.pos = g.pos + 1]

\* the value that call returned
np_random_rand(g) == rand_after_seed[g.key][g.pos + 1]

\* mutant: u > survival
Survives_gt(u, s) == flt(s, u)

\* line 96, the comparison
Survives(u, s) == flt(u, s)

AsFloat(b) == IF b THEN One ELSE Zero

\* lines 95-97, one iteration: the draw is taken before logical_survival is
\* called
TraceStep ==
    /\ pc = "trace"
    /\ iter <= Len(single_run_p)
    /\ LET u == np_random_rand(rng)
           s == Survival(single_code, single_run_p[iter])
       IN  /\ rng' = Advance(rng)
           /\ IF s.raised
              THEN /\ pc' = "raised"
                   /\ err' = "ValueError"
                   /\ err_line' = 96
                   /\ UNCHANGED <<iter, logical_bits>>
              ELSE /\ logical_bits' =
                        [logical_bits EXCEPT ![iter] = AsFloat(Survives(u, s.value))]
                   /\ iter' = iter + 1
                   /\ UNCHANGED <<pc, err, err_line>>
    /\ UNCHANGED <<config, QEC_curves, AUIL_curves, AUIL_bits, true_pos, false_pos,
                   run, prev_bits>>

\* line 98, entered when the loop of line 95 is exhausted
AUILBits ==
    /\ pc = "trace"
    /\ iter > Len(single_run_p)
    /\ AUIL_bits' = [k \in DOMAIN single_run_p |->
                        AsFloat(flt(Zero, Signal(single_code, single_run_p[k])))]
    /\ pc' = "traceplot"
    /\ UNCHANGED <<config, iter, QEC_curves, AUIL_curves, rng, logical_bits,
                   true_pos, false_pos, err, err_line, run, prev_bits>>

\* lines 99-107: the trace panel.  The subscripts threshold_QEC[single_code]
\* (line 101) and threshold_AUIL[single_code] (line 102) can fail; the drawing
\* calls change no variable of the script.
TracePlot ==
    /\ pc = "traceplot"
    /\ IF single_code \notin DOMAIN threshold_QEC
       THEN /\ pc' = "raised"
            /\ err' = "KeyError"
            /\ err_line' = 101
            /\ UNCHANGED iter
       ELSE IF single_code \notin DOMAIN threshold_AUIL
       THEN /\ pc' = "raised"
            /\ err' = "KeyError"
            /\ err_line' = 102
            /\ UNCHANGED iter
       ELSE /\ pc' = "classify"
            /\ iter' = 1
            /\ UNCHANGED <<err, err_line>>
    /\ UNCHANGED <<config, QEC_curves, AUIL_curves, rng, logical_bits, AUIL_bits,
                   true_pos, false_pos, run, prev_bits>>

\* the quotients count / length of np.mean, tabulated (evaluated once)
GridLens == (0..MaxGrid) \cup {3, 41}
Quotient == [n \in GridLens |-> [c \in 0..n |-> fdiv(Float(c, 0), Float(n, 0))]]

\* np.mean of a boolean array: the float sum of the array over its length;
\* 0.0 / 0 is nan (numpy warns and does not raise)
np_mean(b) == Quotient[Len(b)][Cardinality({k \in DOMAIN b : b[k]})]

\* mutant: curve >= 0.5
Above_ge(curve) == [k \in DOMAIN curve |-> IF fle(Half, curve[k]) THEN 1 ELSE 0]

\* lines 114-115: (curve > 0.5).astype(int)
Above(curve) == [k \in DOMAIN curve |-> IF flt(Half, curve[k]) THEN 1 ELSE 0]

\* lines 113-119, one iteration
Classify ==
    /\ pc = "classify"
    /\ iter <= Len(codes)
    /\ LET code  == codes[iter]
           truth == Above(QEC_curves[code])
           pred  == Above(AUIL_curves[code])
           tp    == np_mean([k \in DOMAIN truth |-> truth[k] = 1 /\ pred[k] = 1])
           fp    == np_mean([k \in DOMAIN truth |-> truth[k] = 0 /\ pred[k] = 1])
       IN  /\ true_pos' = Append(true_pos, tp)
           /\ false_pos' = Append(false_pos, fp)
    /\ iter' = iter + 1
    /\ UNCHANGED <<config, pc, QEC_curves, AUIL_curves, rng, logical_bits,
                   AUIL_bits, err, err_line, run, prev_bits>>

\* lines 120-129, entered when the loop of line 113 is exhausted: the last
\* panel is drawn from true_pos and false_pos and the figure is shown
Finish ==
    /\ pc = "classify"
    /\ iter > Len(codes)
    /\ pc' = "done"
    /\ UNCHANGED <<config, iter, QEC_curves, AUIL_curves, rng, logical_bits,
                   AUIL_bits, true_pos, false_pos, err, err_line, run, prev_bits>>

\* The script is started again: a new process, the same literals, a generator
\* that no seed has set yet.
Rerun ==
    /\ pc \in {"done", "raised"}
    /\ run < MaxRuns
    /\ run' = run + 1
    /\ prev_bits' = logical_bits
    /\ pc' = "aggregate"
    /\ iter' = 1
    /\ QEC_curves' = EmptyDict
    /\ AUIL_curves' = EmptyDict
    /\ rng' = Fresh(run + 1)
    /\ logical_bits' = <<>>
    /\ AUIL_bits' = <<>>
    /\ true_pos' = <<>>
    /\ false_pos' = <<>>
    /\ err' = "none"
    /\ err_line' = 0
    /\ UNCHANGED config

Next ==
    \/ Aggregate
    \/ Plot
    \/ TraceSetup
    \/ TraceStep
    \/ AUILBits
    \/ TracePlot
    \/ Classify
    \/ Finish
    \/ Rerun

Spec == Init /\ [][Next]_vars

(***************************************************************************)
(* Properties                                                              *)
(***************************************************************************)
\* 1 - n_qubits * p in binary64, tabulated on the grid points
OneMinusNP == [p \in GridPoints |-> fsub(One, fmul(N, p))]

\* the loop of line 95 has run to its end
TraceOver ==
    \/ pc \in {"traceplot", "classify", "done"}
    \/ pc = "raised" /\ err_line \in {101, 102}

\* iteration k of the loop of line 95 has completed
TraceDone(k) == TraceOver \/ (pc = "trace" /\ k < iter)

\* the function itself, on every code identifier and grid point
SignalCrossesAtThreshold ==
    \A code \in AllCodes, p \in GridPoints :
        LET thr == one_over_n
            v   == Signal(code, p)
        IN  /\ fle(thr, p) => v = Zero
            /\ flt(p, thr) => v = OneMinusNP[p]
            /\ flt(Zero, v) <=> flt(p, thr)

\* C1: the AUIL signal is 0 at every p >= 1/n_qubits and is 1 - n_qubits * p,
\* strictly positive, at every p < 1/n_qubits: for the function on every code
\* identifier and grid point, and for every value of the aggregated curves.
C1_SignalZeroCrossing ==
    /\ SignalCrossesAtThreshold
    /\ \A code \in DOMAIN AUIL_curves : \A k \in DOMAIN p_vals :
         LET thr == threshold_AUIL[code]
             v   == AUIL_curves[code][k]
         IN  /\ fle(thr, p_vals[k]) => v = Zero
             /\ flt(p_vals[k], thr) => v = OneMinusNP[p_vals[k]]
             /\ flt(Zero, v) <=> flt(p_vals[k], thr)

\* a curve holding a positive value below the threshold and a zero at or above it
C1_Witness ==
    \E code \in DOMAIN AUIL_curves : \E a, b \in DOMAIN p_vals :
        /\ flt(Zero, p_vals[a])
        /\ flt(p_vals[a], threshold_AUIL[code])
        /\ flt(Zero, AUIL_curves[code][a])
        /\ flt(AUIL_curves[code][a], One)
        /\ fle(threshold_AUIL[code], p_vals[b])
        /\ AUIL_curves[code][b] = Zero

\* the function itself, on every pair of supported codes and every grid point
SignalSameForAllCodes ==
    \A c1, c2 \in SupportedCodes : \A p \in GridPoints : Signal(c1, p) = Signal(c2, p)

\* C2: the AUIL signal does not depend on the code: any two codes give the same
\* value at every p, and the aggregated AUIL curves of all codes are equal.
C2_SignalIgnoresCode ==
    /\ SignalSameForAllCodes
    /\ \A c1, c2 \in DOMAIN AUIL_curves : AUIL_curves[c1] = AUIL_curves[c2]

\* the curves of all three codes are aggregated over a grid with a positive signal
C2_Witness ==
    /\ DOMAIN AUIL_curves = SupportedCodes
    /\ \E k \in DOMAIN p_vals :
         /\ flt(Zero, AUIL_curves["depolarizing"][k])
         /\ flt(AUIL_curves["depolarizing"][k], One)

\* logical_survival raised in the loop of line 31, in the loop of line 95
RaisedInAggregate == pc = "raised" /\ err_line = 32
RaisedInTrace == pc = "raised" /\ err_line = 96

\* the function itself, on every code identifier and grid point
SurvivalRaisesOnOtherCodes ==
    \A code \in AllCodes, p \in GridPoints :
        LET r == Survival(code, p)
        IN  IF code \in {"bit-flip", "phase-flip", "depolarizing"}
            THEN ~r.raised /\ DOMAIN r = {"raised", "value"}
            ELSE r.raised /\ r.exc = "ValueError" /\ DOMAIN r = {"raised", "exc"}

\* C3: logical_survival raises ValueError for every identifier other than the
\* three supported ones, at every p, and returns no value; for the three it
\* never raises.  The script ends with ValueError exactly where such a call is
\* made (lines 32 and 96), and no survival value is stored for an unsupported
\* code.
C3_UnsupportedCodeRaises ==
    /\ SurvivalRaisesOnOtherCodes
    /\ \A code \in DOMAIN QEC_curves :
         code \in {"bit-flip", "phase-flip", "depolarizing"} \/ QEC_curves[code] = <<>>
    /\ (err = "ValueError") <=> (RaisedInAggregate \/ RaisedInTrace)
    /\ RaisedInAggregate =>
         /\ p_vals # <<>>
         /\ codes[iter] \notin {"bit-flip", "phase-flip", "depolarizing"}
         /\ codes[iter] \notin DOMAIN QEC_curves \cup DOMAIN AUIL_curves
    /\ RaisedInTrace =>
         /\ single_run_p # <<>>
         /\ iter = 1
         /\ single_code \notin {"bit-flip", "phase-flip", "depolarizing"}
    /\ (pc # "raised" /\ p_vals # <<>>) =>
         \A k \in 1..(IF pc = "aggregate" THEN iter - 1 ELSE Len(codes)) :
             codes[k] \in {"bit-flip", "phase-flip", "depolarizing"}
    /\ (TraceOver /\ single_run_p # <<>>) =>
         single_code \in {"bit-flip", "phase-flip", "depolarizing"}

\* the aggregation met an unsupported code after storing a supported one
C3_Witness ==
    /\ RaisedInAggregate
    /\ err = "ValueError"
    /\ codes[iter] = "surface"
    /\ DOMAIN QEC_curves = {"depolarizing"}

\* C4 as claimed: over an empty noise grid the classification fails and
\* produces no rate for any code.
C4_EmptyGridFails ==
    p_vals = <<>> => (true_pos = <<>> /\ false_pos = <<>> /\ pc # "done")

SurvivalAtOneIsZero == \A code \in SupportedCodes : Survival(code, One) = Return(Zero)

\* C5: at p = 1 the survival of every supported code is 0.0.
C5_SurvivalAtOne ==
    /\ SurvivalAtOneIsZero
    /\ \A code \in DOMAIN QEC_curves : \A k \in DOMAIN p_vals :
         p_vals[k] = One => QEC_curves[code][k] = Zero

\* the curves of all three codes are aggregated over a grid that holds p = 1
C5_Witness ==
    /\ DOMAIN QEC_curves = SupportedCodes
    /\ \E k \in DOMAIN p_vals :
         /\ p_vals[k] = One
         /\ \A code \in SupportedCodes : QEC_curves[code][k] = Zero

SurvivalAtZeroIsOne == \A code \in SupportedCodes : Survival(code, Zero) = Return(One)

\* C6: at p = 0 the survival of every supported code is exactly 1.0.
C6_SurvivalAtZero ==
    /\ SurvivalAtZeroIsOne
    /\ \A code \in DOMAIN QEC_curves : \A k \in DOMAIN p_vals :
         p_vals[k] = Zero => QEC_curves[code][k] = One

\* the curves of all three codes are aggregated over a grid that holds p = 0
C6_Witness ==
    /\ DOMAIN QEC_curves = SupportedCodes
    /\ \E k \in DOMAIN p_vals :
         /\ p_vals[k] = Zero
         /\ \A code \in SupportedCodes : QEC_curves[code][k] = One

\* C7 as claimed: every value of every QEC survival curve lies in [0, 1].
C7_SurvivalIsProbability ==
    \A code \in DOMAIN QEC_curves : \A k \in DOMAIN p_vals :
        /\ fle(Zero, QEC_curves[code][k])
        /\ fle(QEC_curves[code][k], One)

\* C8: a run of the script with the same seed, grid and code as the run before
\* it produces the same outcome at every grid index.
C8_TrialReproducible ==
    run > 1 =>
        \A k \in DOMAIN logical_bits :
            TraceDone(k) => logical_bits[k] = prev_bits[k]

\* a second run has repeated a trace in which a draw decided an outcome: the
\* logical qubit failed at a point of positive survival
C8_Witness ==
    /\ run = 2
    /\ pc = "done"
    /\ logical_bits = prev_bits
    /\ \E k \in DOMAIN logical_bits :
         /\ logical_bits[k] = Zero
         /\ flt(Zero, Survival(single_code, single_run_p[k]).value)

\* C9: in one trace the generator is seeded once and advanced once per grid
\* point, in index order: entering iteration k it has produced k - 1 draws, and
\* the outcome at index k is true iff the k-th draw after seeding is below
\* logical_survival(single_code, single_run_p[k]); later indexes still hold 1.
C9_OneDrawPerPoint ==
    /\ pc = "trace" => rng = [key |-> seed, pos |-> iter - 1]
    /\ TraceOver => rng = [key |-> seed, pos |-> Len(single_run_p)]
    /\ (pc = "trace" \/ TraceOver) =>
         /\ Len(logical_bits) = Len(single_run_p)
         /\ \A k \in DOMAIN logical_bits :
              IF TraceDone(k)
              THEN /\ logical_bits[k] = One <=>
                        flt(rand_after_seed[seed][k],
                            Survival(single_code, single_run_p[k]).value)
                   /\ logical_bits[k] \in {Zero, One}
              ELSE logical_bits[k] = One

\* a finished trace of two or more points with both outcomes, one of them false
\* at a point of positive survival
C9_Witness ==
    /\ pc = "done"
    /\ Len(single_run_p) >= 2
    /\ rng.pos = Len(single_run_p)
    /\ \E a, b \in DOMAIN logical_bits :
         /\ logical_bits[a] = One
         /\ logical_bits[b] = Zero
         /\ flt(Zero, Survival(single_code, single_run_p[b]).value)

\* the number of grid points whose AUIL value is above 0.5
PredictedPositive(code) ==
    Cardinality({k \in DOMAIN p_vals : flt(Half, AUIL_curves[code][k])})

\* C10: over a non-empty grid no point has AUIL_signal > 0.5 with
\* logical_survival <= 0.5; every computed false-positive rate is 0 and every
\* true-positive rate is the fraction of grid points with AUIL_signal > 0.5.
C10_NoFalsePositive ==
    p_vals # <<>> =>
        /\ \A code \in DOMAIN QEC_curves : \A k \in DOMAIN p_vals :
             ~(flt(Half, AUIL_curves[code][k]) /\ fle(QEC_curves[code][k], Half))
        /\ Len(true_pos) = Len(false_pos)
        /\ \A j \in DOMAIN false_pos :
             /\ feq(false_pos[j], Zero)
             /\ feq(true_pos[j], Quotient[Len(p_vals)][PredictedPositive(codes[j])])

\* all three codes are classified over a grid with some points predicted
\* positive and some points of failed survival
C10_Witness ==
    /\ pc = "done"
    /\ Len(false_pos) = 3
    /\ \A j \in DOMAIN true_pos : flt(Zero, true_pos[j]) /\ flt(true_pos[j], One)
    /\ \E k \in DOMAIN p_vals : fle(QEC_curves["bit-flip"][k], Half)

====
